---- MODULE Spec2Model ----
(***************************************************************************)
(* English -> Lunari translator (src/app.js).                              *)
(*                                                                         *)
(* Strings are sequences of one-character strings.  JavaScript values are  *)
(* records [t, s]: t is the typeof-like tag and s the text of a string (or *)
(* the decimal text of a number); an object carrying a primary translation *)
(* field has a third field l.  A dictionary object is a record             *)
(* [words, phrases] of the two sub-values; a sub-value that is a mapping   *)
(* is [t |-> "object", m |-> <function from keys to values>].  The meta    *)
(* part of a dictionary is never read by the code modelled here and is     *)
(* left out.                                                               *)
(***************************************************************************)
EXTENDS Naturals, Sequences, FiniteSets, TLC

VARIABLES heap, activeDict, builtInDict, localStorage, pc,
          englishInput, lunariOutput, preferPhrases, markUnknown,
          dictStatus, timers, call, loaded

vars == <<heap, activeDict, builtInDict, localStorage, pc,
          englishInput, lunariOutput, preferPhrases, markUnknown,
          dictStatus, timers, call, loaded>>

(***************************************************************************)
(* Bounds of the model.                                                    *)
(***************************************************************************)
MaxLen == 3
MaxTimers == 1

(***************************************************************************)
(* Characters.                                                             *)
(***************************************************************************)
LowerAlpha == <<"a","b","c","d","e","f","g","h","i","j","k","l","m",
                "n","o","p","q","r","s","t","u","v","w","x","y","z">>
UpperAlpha == <<"A","B","C","D","E","F","G","H","I","J","K","L","M",
                "N","O","P","Q","R","S","T","U","V","W","X","Y","Z">>

IndexIn(c, alpha) ==
  IF \E i \in 1..Len(alpha) : alpha[i] = c
  THEN CHOOSE i \in 1..Len(alpha) : alpha[i] = c
  ELSE 0

\* [A-Za-z]
IsLetter(c) == IndexIn(c, LowerAlpha) > 0 \/ IndexIn(c, UpperAlpha) > 0

\* \s of a regular expression, and what trim() removes
IsSpace(c) == c \in {" ", "\t", "\n", "\r"}

\* . of a regular expression: anything but a line terminator
IsDot(c) == c \notin {"\n", "\r"}

UpperChar(c) == IF IndexIn(c, LowerAlpha) > 0 THEN UpperAlpha[IndexIn(c, LowerAlpha)] ELSE c
LowerChar(c) == IF IndexIn(c, UpperAlpha) > 0 THEN LowerAlpha[IndexIn(c, UpperAlpha)] ELSE c

toUpperCase(s) == [i \in 1..Len(s) |-> UpperChar(s[i])]
toLowerCase(s) == [i \in 1..Len(s) |-> LowerChar(s[i])]

\* s.slice(k) for 0 <= k
slice(s, k) == IF k >= Len(s) THEN <<>> ELSE SubSeq(s, k + 1, Len(s))

RECURSIVE Concat(_)
Concat(ss) == IF ss = <<>> THEN <<>> ELSE Head(ss) \o Concat(Tail(ss))

\* s.trim()
RECURSIVE trimStart(_)
trimStart(s) == IF s # <<>> /\ IsSpace(Head(s)) THEN trimStart(Tail(s)) ELSE s

RECURSIVE trimEnd(_)
trimEnd(s) ==
  IF s # <<>> /\ IsSpace(s[Len(s)]) THEN trimEnd(SubSeq(s, 1, Len(s) - 1)) ELSE s

trim(s) == trimEnd(trimStart(s))

\* s.replace(/\s+/g, " ")
RECURSIVE collapseSpaces(_)
collapseSpaces(s) ==
  IF s = <<>> THEN <<>>
  ELSE IF IsSpace(Head(s)) THEN <<" ">> \o collapseSpaces(trimStart(s))
  ELSE <<Head(s)>> \o collapseSpaces(Tail(s))

normalizeSpaces(s) == collapseSpaces(trim(s))

(***************************************************************************)
(* JavaScript values.                                                      *)
(***************************************************************************)
Null == [t |-> "null", s |-> <<>>]
Undefined == [t |-> "undefined", s |-> <<>>]
Str(s) == [t |-> "string", s |-> s]
Num(s) == [t |-> "number", s |-> s]
\* an object {l: v}; v = Undefined for an object without the field
Obj(v) == [t |-> "object", s |-> <<>>, l |-> v]
\* Object, the value of the inherited property "constructor"
ObjectFunction == [t |-> "function", s |-> <<>>]
\* Object.prototype, the value of the inherited property "__proto__"
ObjectPrototype == Obj(Undefined)
\* a TypeError raised by the call
Throw == [t |-> "throw", s |-> <<>>]
\* a fetch or a JSON.parse that raised
Failed == [t |-> "failed", s |-> <<>>]

\* !v is false
Truthy(v) ==
  CASE v.t = "string" -> v.s # <<>>
    [] v.t = "number" -> v.s # <<"0">>
    [] v.t \in {"object", "function"} -> TRUE
    [] OTHER -> FALSE

\* String(Object)
FunctionText == <<"f","u","n","c","t","i","o","n"," ","O","b","j","e","c","t","(",")",
                  " ","{"," ","[","n","a","t","i","v","e"," ","c","o","d","e","]"," ","}">>

\* the string a value becomes in a template literal, in join("") or when
\* it is assigned to the value of a text field
ToStr(v) ==
  CASE v.t \in {"string", "number"} -> v.s
    [] v.t \in {"null", "undefined"} -> <<>>
    [] v.t = "function" -> FunctionText
    [] OTHER -> <<"[","o","b","j","e","c","t"," ","O","b","j","e","c","t","]">>

ConstructorKey == <<"c","o","n","s","t","r","u","c","t","o","r">>
ProtoKey == <<"_","_","p","r","o","t","o","_","_">>

EmptyMap == [t |-> "object", m |-> <<>>]
\* a sub-value that is no mapping (absent, or a string, a number, ...)
NoMap == [t |-> "undefined", m |-> <<>>]

\* obj[key] on a plain object: own properties first, then Object.prototype
Get(obj, key) ==
  IF key \in DOMAIN obj.m THEN obj.m[key]
  ELSE IF key = ConstructorKey THEN ObjectFunction
  ELSE IF key = ProtoKey THEN ObjectPrototype
  ELSE Undefined

\* obj[key] = v on a plain object, v a string: the inherited __proto__
\* setter ignores a value that is neither an object nor null
Put(obj, key, v) ==
  IF key = ProtoKey /\ key \notin DOMAIN obj.m /\ v.t \notin {"object", "null"}
  THEN obj
  ELSE [obj EXCEPT !.m = [k \in (DOMAIN obj.m) \cup {key} |->
                            IF k = key THEN v ELSE obj.m[k]]]

\* Object.keys(obj)
Keys(obj) == DOMAIN obj.m

(***************************************************************************)
(* Casing (src/app.js 31-46).                                              *)
(***************************************************************************)
isAllCaps(s) == Len(s) > 1 /\ s = toUpperCase(s)

isTitleCase(s) ==
  /\ Len(s) > 0
  /\ s[1] = UpperChar(s[1])
  /\ slice(s, 1) = toLowerCase(slice(s, 1))

\* a faulty applyCasing, which capitalizes without lower-casing the rest
applyCasingKeepRest(sourceToken, translatedToken) ==
  IF ~Truthy(translatedToken) THEN translatedToken
  ELSE IF translatedToken.t # "string" THEN Throw
  ELSE IF isAllCaps(sourceToken) THEN Str(toUpperCase(translatedToken.s))
  ELSE IF isTitleCase(sourceToken)
  THEN Str(<<UpperChar(translatedToken.s[1])>> \o slice(translatedToken.s, 1))
  ELSE IF sourceToken = toLowerCase(sourceToken) THEN Str(toLowerCase(translatedToken.s))
  ELSE translatedToken

\* translatedToken is any value lookupWord can return; a method call on a
\* value that has no such method raises a TypeError
applyCasing(sourceToken, translatedToken) ==
  IF ~Truthy(translatedToken) THEN translatedToken
  ELSE IF isAllCaps(sourceToken) THEN
    IF translatedToken.t = "string" THEN Str(toUpperCase(translatedToken.s)) ELSE Throw
  ELSE IF isTitleCase(sourceToken) THEN
    IF translatedToken.t = "string"
    THEN Str(<<UpperChar(translatedToken.s[1])>> \o toLowerCase(slice(translatedToken.s, 1)))
    ELSE Throw
  ELSE IF sourceToken = toLowerCase(sourceToken) THEN
    IF translatedToken.t = "string" THEN Str(toLowerCase(translatedToken.s)) ELSE Throw
  ELSE translatedToken

(***************************************************************************)
(* Tokenizer (src/app.js 48-53).                                           *)
(***************************************************************************)
\* the length of the longest prefix of s whose characters all satisfy the
\* class: letters when letters is TRUE, non-letters otherwise
RECURSIVE RunLen(_, _)
RunLen(s, letters) ==
  IF s # <<>> /\ (IsLetter(Head(s)) <=> letters) THEN 1 + RunLen(Tail(s), letters) ELSE 0

\* the length of the match of [A-Za-z]+(?:'[A-Za-z]+)? at the start of s, 0 if none
WordMatchLen(s) ==
  LET n == RunLen(s, TRUE)
      rest == slice(s, n)
      k == IF rest # <<>> /\ Head(rest) = "'" THEN RunLen(Tail(rest), TRUE) ELSE 0
  IN IF n = 0 THEN 0 ELSE IF k > 0 THEN n + 1 + k ELSE n

\* a faulty tokenizer, input.match(/[A-Za-z]+(?:'[A-Za-z]+)?/g) || [], which
\* keeps the words only
RECURSIVE tokenizeWords(_)
tokenizeWords(input) ==
  IF input = <<>> THEN <<>>
  ELSE IF WordMatchLen(input) > 0
  THEN <<SubSeq(input, 1, WordMatchLen(input))>> \o tokenizeWords(slice(input, WordMatchLen(input)))
  ELSE tokenizeWords(slice(input, RunLen(input, FALSE)))

\* input.match(/[A-Za-z]+(?:'[A-Za-z]+)?|[^A-Za-z]+/g) || []
RECURSIVE tokenizeKeepPunct(_)
tokenizeKeepPunct(input) ==
  IF input = <<>> THEN <<>>
  ELSE LET w == WordMatchLen(input)
           n == IF w > 0 THEN w ELSE RunLen(input, FALSE)
       IN <<SubSeq(input, 1, n)>> \o tokenizeKeepPunct(slice(input, n))

\* /^[A-Za-z]+(?:'[A-Za-z]+)?$/.test(tok)
IsWordToken(tok) == tok # <<>> /\ WordMatchLen(tok) = Len(tok)

(***************************************************************************)
(* Dictionary lookup (src/app.js 55-70).  dict is the value of activeDict: *)
(* Null, or a dictionary object.                                           *)
(***************************************************************************)
\* dict?.words?.[key] and dict?.phrases?.[key]
GetIn(dict, part, key) ==
  IF dict = Null THEN Undefined
  ELSE IF dict[part].t # "object" THEN Undefined
  ELSE Get(dict[part], key)

\* the value lookupWord makes of the entry found
EntryValue(entry) ==
  IF ~Truthy(entry) THEN Null
  ELSE IF entry.t = "string" THEN entry
  ELSE IF entry.t = "object" /\ Truthy(entry.l) THEN entry.l
  ELSE Null

lookupWord(dict, englishWord) == EntryValue(GetIn(dict, "words", toLowerCase(englishWord)))

PhraseValue(phrase) == IF ~Truthy(phrase) THEN Null ELSE phrase

lookupPhrase(dict, englishText) ==
  PhraseValue(GetIn(dict, "phrases", toLowerCase(normalizeSpaces(englishText))))

(***************************************************************************)
(* Translation (src/app.js 72-121).                                        *)
(***************************************************************************)
endsWithPossessive(base) ==
  Len(base) >= 2 /\ base[Len(base) - 1] = "'" /\ base[Len(base)] = "s"

\* possessive, for the lower-cased token base
IsPossessive(base) == endsWithPossessive(base) /\ Len(base) > 2

\* a faulty baseWord, which keeps the possessive suffix in the key
BaseWordWhole(base) == base

\* baseWord, the key of the word lookup
BaseWord(base) == IF IsPossessive(base) THEN SubSeq(base, 1, Len(base) - 2) ELSE base

\* `${translated}-de` when possessive; a TypeError of applyCasing passes
WithSuffix(possessive, translated) ==
  IF translated = Throw THEN Throw
  ELSE IF possessive THEN Str(ToStr(translated) \o <<"-", "d", "e">>)
  ELSE translated

\* a faulty callback, which emits an unknown word lower-cased
EmitFolded(mark, tok, possessive, found) ==
  IF ~Truthy(found)
  THEN (IF mark THEN Str(<<"[">> \o toLowerCase(tok) \o <<"]">>) ELSE Str(toLowerCase(tok)))
  ELSE WithSuffix(possessive, applyCasing(tok, found))

\* what the callback returns once found is known
Emit(mark, tok, possessive, found) ==
  IF ~Truthy(found)
  THEN (IF mark THEN Str(<<"[">> \o tok \o <<"]">>) ELSE Str(tok))
  ELSE WithSuffix(possessive, applyCasing(tok, found))

\* the callback of tokens.map: the value emitted for one token
TranslateToken(dict, mark, tok) ==
  IF IsWordToken(tok)
  THEN Emit(mark, tok, IsPossessive(toLowerCase(tok)),
            lookupWord(dict, BaseWord(toLowerCase(tok))))
  ELSE Str(tok)

\* a sequence of emitted values cut after the first TypeError
UpToThrow(all) ==
  IF \A i \in 1..Len(all) : all[i] # Throw THEN all
  ELSE SubSeq(all, 1, CHOOSE i \in 1..Len(all) :
                        all[i] = Throw /\ \A j \in 1..(i - 1) : all[j] # Throw)

\* tokens.map(callback): the values emitted, in order, up to and including
\* the first call that raises
MapTokens(dict, mark, tokens) ==
  UpToThrow([i \in 1..Len(tokens) |-> TranslateToken(dict, mark, tokens[i])])

Joined(out) == Str(Concat([i \in 1..Len(out) |-> ToStr(out[i])]))

\* the run of translateText given the early phrase lookup (Null when it is
\* skipped), the tokens, the values emitted for them and the late phrase
\* lookup (Null when it is skipped)
Finish(first, tokens, out, last) ==
  IF Truthy(first)
  THEN [ret |-> first, split |-> FALSE, tokens |-> <<>>, out |-> <<>>]
  ELSE IF out # <<>> /\ out[Len(out)] = Throw
  THEN [ret |-> Throw, split |-> TRUE, tokens |-> tokens, out |-> out]
  ELSE [ret |-> IF Truthy(last) THEN last ELSE Joined(out),
        split |-> TRUE, tokens |-> tokens, out |-> out]

WordByWord(dict, mark, tokens, first, last) ==
  Finish(first, tokens, MapTokens(dict, mark, tokens), last)

\* steps 2 and 3 of translateText, entered with a dictionary or without
TranslateBody(dict, prefer, mark, text) ==
  WordByWord(dict, mark, tokenizeKeepPunct(text),
             IF prefer THEN lookupPhrase(dict, text) ELSE Null,
             IF prefer THEN Null ELSE lookupPhrase(dict, text))

\* a faulty translateText, without the guard of line 73
TranslateRunUnguarded(dict, prefer, mark, text) == TranslateBody(dict, prefer, mark, text)

\* one run of translateText: ret is the value returned (Throw when it
\* raises), split tells whether the word-by-word step ran, tokens and out
\* are its tokens and the values emitted for them
TranslateRun(dict, prefer, mark, text) ==
  IF dict = Null
  THEN [ret |-> Str(text), split |-> FALSE, tokens |-> <<>>, out |-> <<>>]
  ELSE TranslateBody(dict, prefer, mark, text)

translateText(dict, prefer, mark, text) == TranslateRun(dict, prefer, mark, text).ret

(***************************************************************************)
(* Dictionary objects and their storage (src/app.js 137-168).              *)
(*                                                                         *)
(* heap holds the dictionary objects: "o1" is the object the built-in      *)
(* file was parsed into, "o2" the latest other object made (by JSON.parse  *)
(* of a stored or uploaded text, or fresh by ensureDictShape).  activeDict *)
(* and builtInDict are references into heap; NullRef stands for null and   *)
(* for a JSON value that is no object.  localStorage is the value stored   *)
(* under LS_KEY, parsed, or Null.  loaded keeps the value init gave       *)
(* builtInDict, as it was when init loaded it.                             *)
(***************************************************************************)
Refs == {"o1", "o2"}
NullRef == "null"

EmptyDict == [words |-> EmptyMap, phrases |-> EmptyMap]

\* the value of a reference
Deref(h, ref) == IF ref = NullRef THEN Null ELSE h[ref]

\* the object ensureDictShape leaves behind: dict itself with the parts
\* that are no objects replaced, or a fresh empty dictionary
ensureDictShape(dict) ==
  IF dict = Null THEN EmptyDict
  ELSE [words |-> IF dict.words.t = "object" THEN dict.words ELSE EmptyMap,
        phrases |-> IF dict.phrases.t = "object" THEN dict.phrases ELSE EmptyMap]

StatusOf(kind, n, m) == [kind |-> kind, n |-> n, m |-> m]

\* the heap, the reference activeDict holds and the status line after
\* setActiveDict made the object at target the active shaped dictionary
Activated(h, target, shaped, sourceLabel) ==
  [heap |-> [h EXCEPT ![target] = shaped],
   active |-> target,
   status |-> StatusOf(sourceLabel, Cardinality(Keys(shaped.words)),
                       Cardinality(Keys(shaped.phrases)))]

\* setActiveDict(dict, sourceLabel) for dict given by reference; a fresh
\* dictionary, made for a dict that is no object, takes the place of "o2"
setActiveDict(h, ref, sourceLabel) ==
  Activated(h, IF ref = NullRef THEN "o2" ELSE ref, ensureDictShape(Deref(h, ref)),
            sourceLabel)

\* setActiveDict(dict, sourceLabel) for a dict just made by JSON.parse
setActiveParsed(h, parsed, sourceLabel) ==
  setActiveDict([h EXCEPT !["o2"] = parsed], "o2", sourceLabel)

\* JSON.parse(JSON.stringify(dict)) of a shaped dictionary: what a later
\* loadCustomDictFromLS returns
saveCustomDictToLS(dict) == dict

\* the latest call of a function of the engine: its arguments, the state
\* it read and its run
NoCall ==
  [fn |-> "none", text |-> <<>>, dict |-> Null, prefer |-> FALSE, mark |-> FALSE,
   run |-> [ret |-> Null, split |-> FALSE, tokens |-> <<>>, out |-> <<>>]]

CallOf(fn, dict, text, run) ==
  [fn |-> fn, text |-> text, dict |-> dict, prefer |-> preferPhrases,
   mark |-> markUnknown, run |-> run]

\* a listener from els.lunariOutput.value = translateText(text) on, run
\* being the run of that call: when it raises, the assignment and the rest
\* of the listener are skipped and the status line is as the listener's
\* catch, if any, leaves it
Shown(run, dict, text, okStatus, throwStatus) ==
  /\ call' = CallOf("translateText", dict, text, run)
  /\ lunariOutput' = IF run.ret = Throw THEN lunariOutput ELSE ToStr(run.ret)
  /\ dictStatus' = IF run.ret = Throw THEN throwStatus ELSE okStatus

Retranslate(dict, text, okStatus, throwStatus) ==
  Shown(TranslateRun(dict, preferPhrases, markUnknown, text), dict, text,
        okStatus, throwStatus)

\* a listener from the return of setActiveDict on
Activate(set, okStatus, throwStatus) ==
  /\ heap' = set.heap
  /\ activeDict' = set.active
  /\ Retranslate(Deref(set.heap, set.active), englishInput, okStatus, throwStatus)

ActivatePlain(set) == Activate(set, set.status, set.status)
ActivateUpload(set) == Activate(set, set.status, StatusOf("invalidJson", 0, 0))
ActivateAdded(set, count) == Activate(set, StatusOf("added", count, 0), set.status)

(***************************************************************************)
(* Bulk add (src/app.js 182-208).                                          *)
(***************************************************************************)
\* raw.split("\n")
RECURSIVE split(_)
split(raw) ==
  IF \E i \in 1..Len(raw) : raw[i] = "\n"
  THEN LET i == CHOOSE i \in 1..Len(raw) :
                  raw[i] = "\n" /\ \A j \in 1..(i - 1) : raw[j] # "\n"
       IN <<SubSeq(raw, 1, i - 1)>> \o split(slice(raw, i))
  ELSE <<raw>>

\* line.match(/^(.+?)\s*=\s*(.+)$/): the first group ends at the least k
\* that lets the rest match; after "=" the white space skipped is the most
\* that leaves the second group a character
matchLine(line) ==
  LET n == Len(line)
      AllDot(a, b) == \A i \in a..b : IsDot(line[i])
      AllSpace(a, b) == \A i \in a..b : IsSpace(line[i])
      G2(p) == {g \in (p + 1)..n : AllSpace(p + 1, g - 1) /\ AllDot(g, n)}
      Eq(k) == {p \in (k + 1)..n : line[p] = "=" /\ AllSpace(k + 1, p - 1) /\ G2(p) # {}}
      ks == {k \in 1..n : AllDot(1, k) /\ Eq(k) # {}}
  IN IF ks = {} THEN [ok |-> FALSE, m1 |-> <<>>, m2 |-> <<>>]
     ELSE LET k == CHOOSE k \in ks : \A j \in ks : k <= j
              p == CHOOSE p \in Eq(k) : TRUE
              g == CHOOSE g \in G2(p) : \A j \in G2(p) : g >= j
          IN [ok |-> TRUE, m1 |-> SubSeq(line, 1, k), m2 |-> SubSeq(line, g, n)]

includesSpace(s) == \E i \in 1..Len(s) : s[i] = " "

\* the body of the loop over the lines, from the match on
addMatched(adds, left, right) ==
  IF left = <<>> \/ right = <<>> THEN adds
  ELSE IF includesSpace(left)
  THEN [adds EXCEPT !.phrases = Put(adds.phrases, left, Str(right))]
  ELSE [adds EXCEPT !.words = Put(adds.words, left, Str(right))]

addMatch(adds, m) ==
  IF ~m.ok THEN adds
  ELSE addMatched(adds, toLowerCase(normalizeSpaces(m.m1)), normalizeSpaces(m.m2))

addLine(adds, line) == addMatch(adds, matchLine(line))

RECURSIVE addLines(_, _)
addLines(adds, lines) ==
  IF lines = <<>> THEN adds ELSE addLines(addLine(adds, Head(lines)), Tail(lines))

\* .map(l => l.trim()).filter(Boolean)
TrimmedLines(ls) == SelectSeq([i \in 1..Len(ls) |-> trim(ls[i])], LAMBDA l : l # <<>>)

parseQuickAddLines(raw) == addLines(EmptyDict, TrimmedLines(split(raw)))

\* obj after obj[k] = from[k] for every k of keys
RECURSIVE putAll(_, _, _)
putAll(obj, from, keys) ==
  IF keys = {} THEN obj
  ELSE LET k == CHOOSE k \in keys : TRUE
       IN putAll(Put(obj, k, from.m[k]), from, keys \ {k})

MergedInto(shaped, adds) ==
  [words |-> putAll(shaped.words, adds.words, Keys(adds.words)),
   phrases |-> putAll(shaped.phrases, adds.phrases, Keys(adds.phrases))]

\* the content of the active dictionary object after the two loops
mergeAddsIntoDict(dict, adds) == MergedInto(ensureDictShape(dict), adds)

(***************************************************************************)
(* Inputs of the model.                                                    *)
(***************************************************************************)
Alphabet == {"a", "A", "s", "'", " ", "1"}

StringsUpTo(n) == UNION {[1..k -> Alphabet] : k \in 0..n}

\* longer texts: white space runs, an all-capitals possessive, a tab, and
\* the two lower-case property names every plain object inherits
ExtraInputs ==
  { <<"a"," "," ","a">>, <<" ","A"," ","a"," ">>, <<"A","'","S">>, <<"a","\t","a">>,
    ConstructorKey, ProtoKey }

Inputs == StringsUpTo(MaxLen) \cup ExtraInputs

\* lunari_dict.json and uploaded files, parsed
DictWords ==
  [words |-> [t |-> "object", m |->
                (<<"a">> :> Str(<<"y","A">>)) @@
                (<<"s">> :> Obj(Str(<<"S","u">>))) @@
                (<<"a","'","s">> :> Str(<<"f","u","l","l">>)) @@
                (<<"a","a">> :> Str(<<"m","O","-","n","a">>))],
   phrases |-> EmptyMap]

DictPhrases ==
  [words |-> [t |-> "object", m |-> (<<"a">> :> Str(<<"y","A">>))],
   phrases |-> [t |-> "object", m |->
                (<<"a"," ","a">> :> Str(<<"M","u"," ","N","a">>)) @@
                (<<"a","'","s">> :> Str(<<"P","o","s","s">>))]]

\* entries that are no translations: a number as primary field, a number,
\* an object without the field, an empty string
DictBad ==
  [words |-> [t |-> "object", m |->
                (<<"a">> :> Obj(Num(<<"5">>))) @@
                (<<"s">> :> Num(<<"5">>)) @@
                (<<"a","a">> :> Obj(Undefined)) @@
                (<<"a","s">> :> Str(<<>>))],
   phrases |-> [t |-> "object", m |->
                (<<"a"," ","a">> :> Str(<<"M","u"," ","N","a">>)) @@
                (<<"a">> :> Str(<<>>)) @@
                (<<"s">> :> Num(<<"5">>))]]

\* words is no object
DictHalf ==
  [words |-> NoMap,
   phrases |-> [t |-> "object", m |-> (<<"a">> :> Str(<<"F","r","a">>))]]

\* {}
DictNone == [words |-> NoMap, phrases |-> NoMap]

\* a dictionary saved by an earlier session
DictSaved ==
  [words |-> [t |-> "object", m |-> (<<"a">> :> Str(<<"k","a">>))],
   phrases |-> EmptyMap]

\* what lunari_dict.json parses to; Null is a JSON value that is no object
FileSamples == {DictWords, DictPhrases, DictBad, DictHalf, DictNone, Null}
LifeFiles == {DictWords, Null}
UploadSamples == {DictBad, Null}
StoredSamples == {Null, DictSaved}

\* texts of the bulk-add field
RawWord == <<"a"," ","="," ","Y","a">>
RawPhrase == <<"A"," "," ","a"," ","="," ","M","u"," "," ","N","a">>
RawNoEquals == <<"a">>
RawNoLeft == <<"="," ","b">>
RawNoRight == <<"a"," ","=">>
RawTwice == <<"a"," ","="," ","b","\n","a"," ","="," ","c">>
RawProto == <<"_","_","p","r","o","t","o","_","_"," ","="," ","x">>
RawSamples ==
  {RawWord, RawPhrase, RawNoEquals, RawNoLeft, RawNoRight, RawTwice, RawProto}

\* texts typed while the dictionary changes
LifeInputs == {<<"a">>, <<"A"," ","a">>}

(***************************************************************************)
(* The page (src/app.js 210-304).                                          *)
(***************************************************************************)
\* the script has run to the first await of init: no dictionary yet
Init ==
  /\ heap = [r \in Refs |-> EmptyDict]
  /\ activeDict = NullRef
  /\ builtInDict = NullRef
  /\ localStorage \in StoredSamples
  /\ pc = "load"
  /\ englishInput = <<>>
  /\ lunariOutput = <<>>
  /\ preferPhrases \in BOOLEAN
  /\ markUnknown \in BOOLEAN
  /\ dictStatus = StatusOf("none", 0, 0)
  /\ timers = 0
  /\ call = NoCall
  /\ loaded = Null

\* init() from the value loaded for builtInDict on: an object, which takes
\* the place of "o1", or Null, a JSON value that is no object
Loaded(value) ==
  /\ builtInDict' = IF value = Null THEN NullRef ELSE "o1"
  /\ loaded' = value
  /\ ActivatePlain(
       IF localStorage # Null
       THEN setActiveParsed(IF value = Null THEN heap ELSE [heap EXCEPT !["o1"] = value],
                            localStorage, "custom")
       ELSE setActiveDict(IF value = Null THEN heap ELSE [heap EXCEPT !["o1"] = value],
                          IF value = Null THEN NullRef ELSE "o1", "builtIn"))

\* init(); fetched is lunari_dict.json parsed, or Failed when the fetch or
\* the parse raised and builtInDict becomes a fresh empty dictionary
init(fetched) ==
  /\ pc = "load"
  /\ Loaded(IF fetched = Failed THEN EmptyDict ELSE fetched)
  /\ pc' = "ready"
  /\ UNCHANGED <<localStorage, englishInput, preferPhrases, markUnknown, timers>>

\* the input listener of englishInput, after the user made the text s
InputEvent(s) ==
  /\ pc = "ready"
  /\ englishInput' = s
  /\ Retranslate(Deref(heap, activeDict), s, dictStatus, dictStatus)
  /\ UNCHANGED <<heap, activeDict, builtInDict, localStorage, pc, preferPhrases,
                 markUnknown, timers, loaded>>

\* the click listener of btnTranslate
Translate ==
  /\ pc = "ready"
  /\ Retranslate(Deref(heap, activeDict), englishInput, dictStatus, dictStatus)
  /\ UNCHANGED <<heap, activeDict, builtInDict, localStorage, pc, englishInput,
                 preferPhrases, markUnknown, timers, loaded>>

\* the click listener of btnClear
Clear ==
  /\ pc = "ready"
  /\ englishInput' = <<>>
  /\ lunariOutput' = <<>>
  /\ UNCHANGED <<heap, activeDict, builtInDict, localStorage, pc, preferPhrases,
                 markUnknown, dictStatus, timers, call, loaded>>

\* the click listener of btnCopy when the clipboard takes the text: the
\* timer is set
CopyDone ==
  /\ pc = "ready"
  /\ timers < MaxTimers
  /\ timers' = timers + 1
  /\ dictStatus' = StatusOf("copied", 0, 0)
  /\ UNCHANGED <<heap, activeDict, builtInDict, localStorage, pc, englishInput,
                 lunariOutput, preferPhrases, markUnknown, call, loaded>>

\* the click listener of btnCopy when the clipboard refuses
CopyFailed ==
  /\ pc = "ready"
  /\ dictStatus' = StatusOf("copyFailed", 0, 0)
  /\ UNCHANGED <<heap, activeDict, builtInDict, localStorage, pc, englishInput,
                 lunariOutput, preferPhrases, markUnknown, timers, call, loaded>>

\* the timer of btnCopy from the return of setActiveDict on
Reactivated(set) ==
  /\ heap' = set.heap
  /\ activeDict' = set.active
  /\ dictStatus' = set.status

\* the timer of btnCopy, 900 ms later
CopyTimer ==
  /\ timers > 0
  /\ timers' = timers - 1
  /\ Reactivated(IF localStorage # Null
                 THEN setActiveParsed(heap, localStorage, "custom")
                 ELSE setActiveDict(heap, builtInDict, "builtIn"))
  /\ UNCHANGED <<builtInDict, localStorage, pc, englishInput, lunariOutput,
                 preferPhrases, markUnknown, call, loaded>>

\* the change listener of dictFile from the parsed and shaped file on
Uploaded(shaped) ==
  /\ localStorage' = saveCustomDictToLS(shaped)
  /\ ActivateUpload(setActiveParsed(heap, shaped, "custom"))

\* the change listener of dictFile; parsed is the file as JSON.parse
\* returns it, or Failed when it raises
Upload(parsed) ==
  /\ pc = "ready"
  /\ IF parsed = Failed
     THEN /\ dictStatus' = StatusOf("invalidJson", 0, 0)
          /\ UNCHANGED <<heap, activeDict, localStorage, lunariOutput, call>>
     ELSE Uploaded(ensureDictShape(parsed))
  /\ UNCHANGED <<builtInDict, pc, englishInput, preferPhrases, markUnknown, timers, loaded>>

\* the click listener of btnUseBuiltIn
UseBuiltIn ==
  /\ pc = "ready"
  /\ localStorage' = Null
  /\ ActivatePlain(setActiveDict(heap, builtInDict, "builtIn"))
  /\ UNCHANGED <<builtInDict, pc, englishInput, preferPhrases, markUnknown, timers, loaded>>

\* the click listener of btnExportDict: a download, no change of the page
ExportDict ==
  /\ pc = "ready"
  /\ UNCHANGED vars

\* mergeAddsIntoDict(adds) and the rest of the listener; dict is the
\* content of the active dictionary object after the two loops
MergedAt(target, dict, count) ==
  /\ localStorage' = saveCustomDictToLS(dict)
  /\ ActivateAdded(setActiveDict([heap EXCEPT ![target] = dict], target, "custom"), count)

\* the object merged into is the active one, or a fresh one when there is none
Merged(dict, count) == MergedAt(IF activeDict = NullRef THEN "o2" ELSE activeDict, dict, count)

Counted(adds, count) ==
  IF count = 0
  THEN /\ dictStatus' = StatusOf("noValidLines", 0, 0)
       /\ UNCHANGED <<heap, activeDict, localStorage, lunariOutput, call>>
  ELSE Merged(mergeAddsIntoDict(Deref(heap, activeDict), adds), count)

Parsed(adds) ==
  Counted(adds, Cardinality(Keys(adds.words)) + Cardinality(Keys(adds.phrases)))

\* the click listener of btnAddLines, with raw the text of quickAdd
AddLines(raw) ==
  /\ pc = "ready"
  /\ Parsed(parseQuickAddLines(raw))
  /\ UNCHANGED <<builtInDict, pc, englishInput, preferPhrases, markUnknown, timers, loaded>>

\* the user types the character c at the end of the text
Type(c) ==
  /\ Len(englishInput) < MaxLen
  /\ InputEvent(Append(englishInput, c))

\* the user pastes the text s into the empty field
Paste(s) ==
  /\ englishInput = <<>>
  /\ InputEvent(s)

\* a call of one of the functions of the engine before init has set a
\* dictionary, which no listener makes
Called(fn, dict, s, run) ==
  /\ pc = "load"
  /\ call = NoCall
  /\ call' = CallOf(fn, dict, s, run)
  /\ UNCHANGED <<heap, activeDict, builtInDict, localStorage, pc, englishInput,
                 lunariOutput, preferPhrases, markUnknown, dictStatus, timers, loaded>>

Returned(ret) == [ret |-> ret, split |-> FALSE, tokens |-> <<>>, out |-> <<>>]

CallTranslateText(s) ==
  Called("translateText", Deref(heap, activeDict), s,
         TranslateRun(Deref(heap, activeDict), preferPhrases, markUnknown, s))

CallLookupWord(s) ==
  Called("lookupWord", Deref(heap, activeDict), s,
         Returned(lookupWord(Deref(heap, activeDict), s)))

CallLookupPhrase(s) ==
  Called("lookupPhrase", Deref(heap, activeDict), s,
         Returned(lookupPhrase(Deref(heap, activeDict), s)))

\* the page with its dictionary changing under short texts
Next ==
  \/ \E fetched \in LifeFiles \cup {Failed} : init(fetched)
  \/ \E s \in LifeInputs : InputEvent(s)
  \/ Translate
  \/ Clear
  \/ CopyDone
  \/ CopyFailed
  \/ CopyTimer
  \/ \E parsed \in UploadSamples \cup {Failed} : Upload(parsed)
  \/ UseBuiltIn
  \/ ExportDict
  \/ \E raw \in RawSamples : AddLines(raw)

Spec == Init /\ [][Next]_vars

\* the engine under every text of the bound and every dictionary file
NextTranslate ==
  \/ \E fetched \in FileSamples \cup {Failed} : init(fetched)
  \/ \E c \in Alphabet : Type(c)
  \/ \E s \in ExtraInputs : Paste(s)
  \/ \E s \in Inputs : CallTranslateText(s)
  \/ \E s \in Inputs : CallLookupWord(s)
  \/ \E s \in Inputs : CallLookupPhrase(s)

SpecTranslate == Init /\ [][NextTranslate]_vars

(***************************************************************************)
(* What the specification says, in terms of its own.                       *)
(***************************************************************************)
IsLowerLetter(c) == \E i \in 1..26 : LowerAlpha[i] = c
IsUpperLetter(c) == \E i \in 1..26 : UpperAlpha[i] = c
EntirelyUpper(t) == \A i \in 1..Len(t) : ~IsLowerLetter(t[i])
EntirelyLower(t) == \A i \in 1..Len(t) : ~IsUpperLetter(t[i])
Folded(t) == [i \in 1..Len(t) |-> IF IsUpperLetter(t[i]) THEN LowerChar(t[i]) ELSE t[i]]
Raised(t) == [i \in 1..Len(t) |-> IF IsLowerLetter(t[i]) THEN UpperChar(t[i]) ELSE t[i]]
Rest(t) == [i \in 1..(Len(t) - 1) |-> t[i + 1]]

\* casing transfer of section 4.4, from token t to translation r
ExpectedCasing(t, r) ==
  IF Len(t) > 1 /\ EntirelyUpper(t) THEN Raised(r)
  ELSE IF IsUpperLetter(t[1]) /\ EntirelyLower(Rest(t))
  THEN <<Raised(r)[1]>> \o Folded(Rest(r))
  ELSE IF EntirelyLower(t) THEN Folded(r)
  ELSE r

\* a token that begins with a letter is a word token
StartsWord(tok) == tok # <<>> /\ (IsLowerLetter(tok[1]) \/ IsUpperLetter(tok[1]))

\* the case-folded token ends in 's and is longer than two characters
HasSuffix(tok) ==
  /\ Len(tok) > 2
  /\ tok[Len(tok) - 1] = "'"
  /\ tok[Len(tok)] \in {"s", "S"}

\* the key a word token is looked up under
ExpectedKey(tok) ==
  IF HasSuffix(tok) THEN [i \in 1..(Len(tok) - 2) |-> Folded(tok)[i]] ELSE Folded(tok)

\* the translation of the dictionary for a key: a plain string, or the
\* primary field of a structured entry; Null when there is none
Translation(dict, key) ==
  IF dict = Null \/ key \notin DOMAIN dict.words.m THEN Null
  ELSE IF dict.words.m[key].t = "string" /\ dict.words.m[key].s # <<>>
  THEN dict.words.m[key]
  ELSE IF dict.words.m[key].t = "object" /\ dict.words.m[key].l.t \in {"string", "number"}
          /\ dict.words.m[key].l.s # <<>>
  THEN dict.words.m[key].l
  ELSE Null

\* the run of the latest call of translateText
IsTranslate == call.fn = "translateText"
Tokens == call.run.tokens
Out == call.run.out
Emitted == 1..Len(call.run.out)
Found(i) == Translation(call.dict, ExpectedKey(Tokens[i]))

\* the text of a phrase key: trimmed, white space runs collapsed, folded
RECURSIVE Squeezed(_)
Squeezed(t) ==
  IF t = <<>> THEN <<>>
  ELSE IF IsSpace(t[1]) /\ (Len(t) = 1 \/ IsSpace(t[2])) THEN Squeezed(Rest(t))
  ELSE <<IF IsSpace(t[1]) THEN " " ELSE t[1]>> \o Squeezed(Rest(t))

PhraseKey(t) ==
  Folded(IF Squeezed(t) # <<>> /\ Squeezed(t)[1] = " " THEN Rest(Squeezed(t)) ELSE Squeezed(t))

(***************************************************************************)
(* Claims under SpecTranslate.                                             *)
(***************************************************************************)
\* C1: the tokens of tokenizeKeepPunct, concatenated in order, are the
\* input; no token is empty and the empty input has no tokens.
C1_RoundTrip ==
  (IsTranslate /\ call.run.split) =>
    /\ Concat(Tokens) = call.text
    /\ \A i \in 1..Len(Tokens) : Tokens[i] # <<>>
    /\ (call.text = <<>> => Tokens = <<>>)

\* C1 witness: a text of letters, an apostrophe and separators was split
\* into three tokens or more.
C1_Witness ==
  /\ IsTranslate /\ call.run.split
  /\ Len(Tokens) >= 3
  /\ \E i \in 1..Len(call.text) : call.text[i] = "'"

\* C2 as claimed: when the normalized, case-folded input is a key of
\* phrases with a translation, translateText returns that translation, and
\* in every case the result is the same under the other setting of
\* preferPhrases.
C2_PhraseWins ==
  (IsTranslate /\ call.dict # Null) =>
    /\ (/\ PhraseKey(call.text) \in DOMAIN call.dict.phrases.m
        /\ Truthy(call.dict.phrases.m[PhraseKey(call.text)]))
         => call.run.ret = call.dict.phrases.m[PhraseKey(call.text)]
    /\ call.run.ret = translateText(call.dict, ~call.prefer, call.mark, call.text)

\* C3 as claimed: translateText returns a string and never raises.
C3_Total == IsTranslate => call.run.ret.t = "string"

\* C4: for every word token emitted with a string translation r found,
\* the emitted text (before the possessive suffix) is r upper-cased when
\* the token is entirely upper case and longer than one character, else r
\* capitalized when the token is title case, else r lower-cased when the
\* token is entirely lower case, else r as stored.
C4_Casing ==
  IsTranslate =>
    \A i \in Emitted :
      (StartsWord(Tokens[i]) /\ Found(i).t = "string") =>
        /\ Out[i].t = "string"
        /\ Len(Out[i].s) >= Len(Found(i).s)
        /\ SubSeq(Out[i].s, 1, Len(Found(i).s)) = ExpectedCasing(Tokens[i], Found(i).s)

\* C4 witness: a token of irregular casing was emitted as the translation
\* as stored, which is neither its upper-case nor its lower-case form.
C4_Witness ==
  /\ IsTranslate
  /\ \E i \in Emitted :
       /\ StartsWord(Tokens[i]) /\ Found(i).t = "string"
       /\ ~EntirelyUpper(Tokens[i]) /\ ~EntirelyLower(Tokens[i])
       /\ IsLowerLetter(Tokens[i][1])
       /\ Out[i] = Found(i)
       /\ Found(i).s # Raised(Found(i).s) /\ Found(i).s # Folded(Found(i).s)

\* C5: a word token whose folded form ends in 's (and is longer than two
\* characters) is looked up without that suffix, every other word token
\* under its folded form; with a string translation found, the emitted
\* text is the translation cased from the whole token, followed by "-de"
\* exactly when the suffix was removed.
C5_Possessive ==
  IsTranslate =>
    \A i \in Emitted :
      (StartsWord(Tokens[i]) /\ Found(i).t = "string") =>
        Out[i] = Str(ExpectedCasing(Tokens[i], Found(i).s)
                     \o (IF HasSuffix(Tokens[i]) THEN <<"-", "d", "e">> ELSE <<>>))

\* C5 witness: "A's" was emitted as "Ya-de" from a dictionary that also
\* has an entry under the full form a's.
C5_Witness ==
  /\ IsTranslate /\ call.dict # Null
  /\ <<"a","'","s">> \in DOMAIN call.dict.words.m
  /\ \E i \in Emitted :
       /\ Tokens[i] = <<"A","'","s">>
       /\ Out[i] = Str(<<"Y","a","-","d","e">>)

C7_NoDictionary ==
  call.dict = Null =>
    /\ IsTranslate => call.run.ret = Str(call.text)
    /\ call.fn \in {"lookupWord", "lookupPhrase"} => call.run.ret = Null

\* C7 witness: translateText was called with no dictionary, markUnknown
\* on and a text that holds a word.
C7_Witness ==
  /\ IsTranslate /\ call.dict = Null /\ call.mark
  /\ \E i \in 1..Len(call.text) : IsLowerLetter(call.text[i])
  /\ call.run.ret = Str(call.text)

(***************************************************************************)
(* Claims under Spec.                                                      *)
(***************************************************************************)
\* the entries section 4.8 has the lines of raw name: <<part, key, value>>
SpecEntries(raw) ==
  IF raw = RawWord THEN {<<"words", <<"a">>, <<"Y","a">>>>}
  ELSE IF raw = RawPhrase THEN {<<"phrases", <<"a"," ","a">>, <<"M","u"," ","N","a">>>>}
  ELSE IF raw = RawTwice THEN {<<"words", <<"a">>, <<"c">>>>}
  ELSE IF raw = RawProto THEN {<<"words", ProtoKey, <<"x">>>>}
  ELSE {}

NamedKeys(raw, part) == {e[2] : e \in {x \in SpecEntries(raw) : x[1] = part}}
NamedValue(raw, part, key) ==
  Str((CHOOSE e \in SpecEntries(raw) : e[1] = part /\ e[2] = key)[3])

\* part of after is part of prior with the entries named by raw put in
MergedPart(prior, after, raw, part) ==
  /\ after[part].t = "object"
  /\ DOMAIN after[part].m = (DOMAIN prior[part].m) \cup NamedKeys(raw, part)
  /\ \A k \in DOMAIN after[part].m :
       after[part].m[k] = IF k \in NamedKeys(raw, part) THEN NamedValue(raw, part, k)
                          ELSE prior[part].m[k]

MergedAsSpecified(prior, after, raw) ==
  MergedPart(prior, after, raw, "words") /\ MergedPart(prior, after, raw, "phrases")

\* C8 as claimed: a merge of bulk-add lines leaves the active dictionary
\* equal to the prior one except that every valid line "left = right" has
\* put its normalized, case-folded left, mapped to its normalized right,
\* into phrases when the key holds a space and into words otherwise; lines
\* without "=" or with an empty side change nothing.
C8_MergeEffect ==
  [][\A raw \in RawSamples :
       AddLines(raw) =>
         MergedAsSpecified(ensureDictShape(Deref(heap, activeDict)),
                           Deref(heap', activeDict'), raw)]_vars

\* texts of one valid line
OneLine == {raw \in RawSamples : Cardinality(SpecEntries(raw)) = 1 /\ raw # RawTwice}

\* C9 as claimed: a merge of one valid line reports one added entry, the
\* first time and every later time, and a merge of a line whose entry the
\* dictionary already has leaves the dictionary as it was.
C9_Idempotent ==
  [][\A raw \in OneLine :
       AddLines(raw) =>
         /\ dictStatus' = StatusOf("added", 1, 0)
         /\ MergedAsSpecified(ensureDictShape(Deref(heap, activeDict)),
                              ensureDictShape(Deref(heap, activeDict)), raw)
              => Deref(heap', activeDict') = ensureDictShape(Deref(heap, activeDict))]_vars

\* C10 as claimed: a reset to the built-in dictionary makes the active
\* dictionary equal to the built-in dictionary as init loaded it.
C10_Reset ==
  [][UseBuiltIn => Deref(heap', activeDict') = ensureDictShape(loaded)]_vars

====
